---- MODULE Spec2Model ----
(***************************************************************************)
(* Model of pg-dump (src/src/main.rs): the connection supervisor           *)
(* (connect_with_retry), the schema serializer (dump_tables_to), the role  *)
(* serializer (dump_users_and_roles_to), the per-cell value encoder that   *)
(* dump_tables_to applies to every row cell, and run, which drives them.   *)
(*                                                                         *)
(* Text that the claims speak about (declared type names, role names,     *)
(* encoded literals) is modelled as sequences of one-character strings so  *)
(* that contains / starts_with / replace are computed, not assumed.        *)
(***************************************************************************)
EXTENDS Integers, Sequences, FiniteSets, TLC

VARIABLES
    pc,           \* position of the program
    db,           \* the database the session reads (catalog and rows)
    out,          \* lines written to the dump, in order
    result,       \* outcome of run / of the function under study
    cur,          \* the Vec<Row> the current for-loop iterates
    idx,          \* position of that loop in cur
    queries,      \* the queries sent over the session so far, in order
    answers,      \* the outcome of each of those queries, in the same order
    previous,     \* what an earlier run of the program left (Option)
    max_retries,  \* connect_with_retry: parameter
    retries,      \* connect_with_retry: local
    last_error,   \* connect_with_retry: local (Option, as a sequence)
    attempts,     \* number of calls of connect made so far
    errlog,       \* "Connection attempt n failed" lines on stderr
    delay,        \* the Duration computed for the pending sleep
    sleeps,       \* the delays slept so far, in order
    cell,         \* value encoder study: the row cell
    col_type,     \* value encoder study: the declared type of its column
    value         \* value encoder study: the literal produced (Option)

vars == <<pc, db, out, result, cur, idx, queries, answers, previous,
          max_retries, retries, last_error,
          attempts, errlog, delay, sleeps, cell, col_type, value>>

connVars == <<max_retries, retries, last_error, attempts, errlog, delay, sleeps>>
encVars == <<cell, col_type, value>>
dumpVars == <<db, out, cur, idx, queries, answers, previous>>

(***************************************************************************)
(* Bounds of the model.                                                    *)
(***************************************************************************)
MaxTextLen == 3
MaxRetriesBound == 6
MaxRows == 1

(***************************************************************************)
(* Text.                                                                   *)
(***************************************************************************)
T_varchar ==
    <<"c", "h", "a", "r", "a", "c", "t", "e", "r", " ", "v", "a", "r", "y", "i", "n", "g">>
T_bpchar ==
    <<"c", "h", "a", "r", "a", "c", "t", "e", "r">>
T_text ==
    <<"t", "e", "x", "t">>
T_citext ==
    <<"c", "i", "t", "e", "x", "t">>
T_name ==
    <<"n", "a", "m", "e">>
T_timestamp ==
    <<"t", "i", "m", "e", "s", "t", "a", "m", "p", " ", "w", "i", "t", "h", "o", "u", "t", " ", "t", "i", "m", "e", " ", "z", "o", "n", "e">>
T_date ==
    <<"d", "a", "t", "e">>
T_integer ==
    <<"i", "n", "t", "e", "g", "e", "r">>
T_bigint ==
    <<"b", "i", "g", "i", "n", "t">>
T_double ==
    <<"d", "o", "u", "b", "l", "e", " ", "p", "r", "e", "c", "i", "s", "i", "o", "n">>
T_boolean ==
    <<"b", "o", "o", "l", "e", "a", "n">>
T_numeric ==
    <<"n", "u", "m", "e", "r", "i", "c">>
T_mood ==
    <<"m", "o", "o", "d">>
M_char ==
    <<"c", "h", "a", "r">>
M_time ==
    <<"t", "i", "m", "e">>
M_date ==
    <<"d", "a", "t", "e">>
M_character_varying ==
    <<"c", "h", "a", "r", "a", "c", "t", "e", "r", " ", "v", "a", "r", "y", "i", "n", "g">>
M_character ==
    <<"c", "h", "a", "r", "a", "c", "t", "e", "r">>
S_NULL ==
    <<"N", "U", "L", "L">>
S_TRUE ==
    <<"T", "R", "U", "E">>
S_FALSE ==
    <<"F", "A", "L", "S", "E">>
M_pg ==
    <<"p", "g", "_">>
M_md5 ==
    <<"m", "d", "5">>
QUOTE ==
    "'"

\* str::contains(pat)
Contains(s, pat) ==
    \E i \in 1..(Len(s) - Len(pat) + 1) : SubSeq(s, i, i + Len(pat) - 1) = pat

\* str::starts_with(pat)
StartsWith(s, pat) ==
    /\ Len(s) >= Len(pat)
    /\ SubSeq(s, 1, Len(pat)) = pat

\* str::replace("'", "''")
RECURSIVE ReplaceQuote(_)
ReplaceQuote(s) ==
    IF s = <<>> THEN <<>>
    ELSE (IF Head(s) = QUOTE THEN <<QUOTE, QUOTE>> ELSE <<Head(s)>>)
         \o ReplaceQuote(Tail(s))

\* format!("'{}'", val.replace("'", "''"))
QuoteNoEscape(s) ==
    <<QUOTE>> \o s \o <<QUOTE>>
Quoted(s) ==
    <<QUOTE>> \o ReplaceQuote(s) \o <<QUOTE>>

DigitChar(d) ==
    CASE d = 0 -> "0" [] d = 1 -> "1" [] d = 2 -> "2" [] d = 3 -> "3"
      [] d = 4 -> "4" [] d = 5 -> "5" [] d = 6 -> "6" [] d = 7 -> "7"
      [] d = 8 -> "8" [] d = 9 -> "9"

RECURSIVE Digits(_)
Digits(n) ==
    IF n < 10 THEN <<DigitChar(n)>>
    ELSE Digits(n \div 10) \o <<DigitChar(n % 10)>>

\* i32::to_string / i64::to_string
IntToString(n) ==
    IF n < 0 THEN <<"-">> \o Digits(0 - n) ELSE Digits(n)

\* f64::to_string, the cell's value held in tenths (15 is 1.5, 20 is 2)
FloatToString(t) ==
    LET a == IF t < 0 THEN 0 - t ELSE t
        body == IF a % 10 = 0 THEN Digits(a \div 10)
                ELSE Digits(a \div 10) \o <<".">> \o <<DigitChar(a % 10)>>
    IN  IF t < 0 THEN <<"-">> \o body ELSE body

(***************************************************************************)
(* Row cells.  A cell carries the type the server reports for its column   *)
(* (wire), whether it is SQL NULL, and its value: s for textual wire       *)
(* types, n for int4 / int8 / float8 (in tenths) / bool (0 or 1).          *)
(***************************************************************************)
WireOf(data_type) ==
    CASE data_type = T_varchar   -> "varchar"
      [] data_type = T_bpchar    -> "bpchar"
      [] data_type = T_text      -> "text"
      [] data_type = T_citext    -> "citext"
      [] data_type = T_name      -> "name"
      [] data_type = T_timestamp -> "timestamp"
      [] data_type = T_date      -> "date"
      [] data_type = T_integer   -> "int4"
      [] data_type = T_bigint    -> "int8"
      [] data_type = T_double    -> "float8"
      [] data_type = T_boolean   -> "bool"
      [] data_type = T_numeric   -> "numeric"
      [] OTHER                   -> "enum"

TextWires == {"varchar", "bpchar", "text", "citext", "name"}

\* <T as FromSql>::accepts, for the six T that the encoder asks for
Accepts(T, wire) ==
    CASE T \in {"&str", "String"} -> wire \in TextWires
      [] T = "i32"  -> wire = "int4"
      [] T = "i64"  -> wire = "int8"
      [] T = "f64"  -> wire = "float8"
      [] T = "bool" -> wire = "bool"

\* row.try_get::<_, Option<T>>(i): "Some", "None" or "Err"
TryGetOption(T, c) ==
    IF ~Accepts(T, c.wire) THEN "Err"
    ELSE IF c.null THEN "None" ELSE "Some"

\* row.try_get::<_, T>(i) succeeds (a NULL is an error for a plain T)
TryGetOk(T, c) ==
    Accepts(T, c.wire) /\ ~c.null

NullCell(wire) == [wire |-> wire, null |-> TRUE, s |-> <<>>, n |-> 0]
TextCell(wire, s) == [wire |-> wire, null |-> FALSE, s |-> s, n |-> 0]
NumCell(wire, n) == [wire |-> wire, null |-> FALSE, s |-> <<>>, n |-> n]

\* col_type.contains("char") || col_type == "text" ||
\* col_type.contains("time") || col_type.contains("date")
IsStringType(t) ==
    Contains(t, M_char) \/ t = T_text \/ Contains(t, M_time) \/ Contains(t, M_date)

\* The value encoder: the match of dump_tables_to on row.try_get
EncodeNullAsEmpty(c, t) ==
    LET first == TryGetOption("&str", c)
    IN  IF first = "Some"
        THEN IF IsStringType(t) THEN Quoted(c.s) ELSE c.s
        ELSE IF first = "None" THEN Quoted(c.s)
        ELSE IF TryGetOk("i32", c) THEN IntToString(c.n)
        ELSE IF TryGetOk("i64", c) THEN IntToString(c.n)
        ELSE IF TryGetOk("f64", c) THEN FloatToString(c.n)
        ELSE IF TryGetOk("bool", c) THEN (IF c.n = 1 THEN S_TRUE ELSE S_FALSE)
        ELSE IF TryGetOption("String", c) = "Some" THEN Quoted(c.s)
        ELSE <<>>
Encode(c, t) ==
    LET first == TryGetOption("&str", c)
    IN  IF first = "Some"
        THEN IF IsStringType(t) THEN Quoted(c.s) ELSE c.s
        ELSE IF first = "None" THEN S_NULL
        ELSE IF TryGetOk("i32", c) THEN IntToString(c.n)
        ELSE IF TryGetOk("i64", c) THEN IntToString(c.n)
        ELSE IF TryGetOk("f64", c) THEN FloatToString(c.n)
        ELSE IF TryGetOk("bool", c) THEN (IF c.n = 1 THEN S_TRUE ELSE S_FALSE)
        ELSE IF TryGetOption("String", c) = "Some" THEN Quoted(c.s)
        ELSE S_NULL

(***************************************************************************)
(* Inputs of the value encoder study.                                      *)
(***************************************************************************)
DeclaredTypes ==
    {T_varchar, T_bpchar, T_text, T_citext, T_name, T_timestamp, T_date,
     T_integer, T_bigint, T_double, T_boolean, T_numeric, T_mood}

TextChars == {"O", QUOTE}

Texts ==
    UNION {[1..n -> TextChars] : n \in 0..MaxTextLen}

\* the present values a cell of the given wire type can hold; for the wire
\* types whose value no requested T accepts, the value is kept as its text
PresentCells(wire) ==
    CASE wire \in {"int4", "int8"} -> {NumCell(wire, n) : n \in {-12, 0, 7, 305}}
      [] wire = "float8" -> {NumCell(wire, n) : n \in {-5, 15, 20}}
      [] wire = "bool" -> {NumCell(wire, n) : n \in {0, 1}}
      [] wire \in TextWires -> {TextCell(wire, s) : s \in Texts}
      [] OTHER -> {TextCell(wire, s) : s \in Texts \ {<<>>}}

CellsOf(data_type) ==
    {NullCell(WireOf(data_type))} \cup PresentCells(WireOf(data_type))

NoValue == <<>>

(***************************************************************************)
(* Names and the ORDER BY clauses of the catalog queries.                  *)
(***************************************************************************)
CharCode(c) ==
    CASE c = "1" -> 49 [] c = "2" -> 50 [] c = "_" -> 95
      [] c = "a" -> 97 [] c = "b" -> 98 [] c = "d" -> 100 [] c = "e" -> 101
      [] c = "g" -> 103 [] c = "i" -> 105 [] c = "l" -> 108 [] c = "m" -> 109
      [] c = "n" -> 110 [] c = "o" -> 111 [] c = "p" -> 112 [] c = "s" -> 115
      [] c = "t" -> 116 [] c = "z" -> 122

\* string comparison of ORDER BY <name>
RECURSIVE NameLess(_, _)
NameLess(x, y) ==
    IF y = <<>> THEN FALSE
    ELSE IF x = <<>> THEN TRUE
    ELSE IF Head(x) = Head(y) THEN NameLess(Tail(x), Tail(y))
    ELSE CharCode(Head(x)) < CharCode(Head(y))

\* ... ORDER BY t.typname / sequence_name / c.relname / r.rolname
RECURSIVE OrderByNameDesc(_)
OrderByNameDesc(S) ==
    IF S = {} THEN <<>>
    ELSE LET m == CHOOSE x \in S : \A y \in S : ~NameLess(x.name, y.name)
         IN  <<m>> \o OrderByNameDesc(S \ {m})
RECURSIVE OrderByName(_)
OrderByName(S) ==
    IF S = {} THEN <<>>
    ELSE LET m == CHOOSE x \in S : \A y \in S : ~NameLess(y.name, x.name)
         IN  <<m>> \o OrderByName(S \ {m})

\* ... AND a.attnum > 0 AND NOT a.attisdropped ORDER BY a.attnum
ColumnsByName(S) ==
    OrderByName(S)
RECURSIVE OrderByAttnum(_)
OrderByAttnum(S) ==
    IF S = {} THEN <<>>
    ELSE LET m == CHOOSE x \in S : \A y \in S : x.attnum <= y.attnum
         IN  <<m>> \o OrderByAttnum(S \ {m})

N_a == <<"a">>
N_b == <<"b">>
N_s1 == <<"s", "1">>
N_s2 == <<"s", "2">>
N_id == <<"i", "d">>
N_note == <<"n", "o", "t", "e">>
N_al == <<"a", "l">>
N_bo == <<"b", "o">>
N_pgm == <<"p", "g", "_", "m">>
N_pga == <<"p", "g", "_", "a">>
N_ze == <<"z", "e">>
N_open == <<"o", "p", "e", "n">>
N_closed == <<"c", "l", "o", "s", "e", "d">>
N_zz == <<"z", "z">>
N_public == <<"p", "u", "b", "l", "i", "c">>

None == <<>>
Some(x) == <<x>>

(***************************************************************************)
(* The databases the model reads.  A database is a record                  *)
(*   enums     : set of [name, labels]                                     *)
(*   sequences : set of [name, params]   params = rows of the parameter    *)
(*               query, each a tuple of the cells at index 0..4            *)
(*   tables    : set of [name, columns, pk, indexes, fks, rows, owner]     *)
(*   roles     : set of pg_roles entries                                   *)
(*   owner, user : the database's owning role, the session's principal    *)
(* Stored rows are functions from attribute number to cell.                *)
(***************************************************************************)
Column(attnum, name, data_type, max_length, not_null, column_default) ==
    [attnum |-> attnum, name |-> name, data_type |-> data_type,
     max_length |-> max_length, not_null |-> not_null,
     column_default |-> column_default]

Shape0 ==
    [columns |-> {}, pk |-> <<>>, indexes |-> <<>>]
Shape1 ==
    [columns |-> {Column(1, N_id, T_integer, None, TRUE, None)},
     pk |-> <<N_id>>, indexes |-> <<>>]
Shape2 ==
    [columns |-> {Column(1, N_note, T_varchar, Some(8), FALSE, Some("''")),
                  Column(3, N_id, T_integer, None, FALSE, None)},
     pk |-> <<>>, indexes |-> <<"CREATE INDEX">>]
Shapes == {Shape0, Shape1, Shape2}

\* the cells a stored row can hold in a column of the given declared type
SampleCells(data_type) ==
    {NullCell(WireOf(data_type))} \cup
    (IF WireOf(data_type) \in TextWires
     THEN {TextCell(WireOf(data_type), <<"O", QUOTE, "B">>)}
     ELSE {NumCell(WireOf(data_type), 7)})

StoredRows(shape) ==
    LET nums == {c.attnum : c \in shape.columns}
        typeOf(a) == (CHOOSE c \in shape.columns : c.attnum = a).data_type
    IN  {r \in [nums -> UNION {SampleCells(c.data_type) : c \in shape.columns}] :
            \A a \in nums : r[a] \in SampleCells(typeOf(a))}

RowLists(shape) ==
    UNION {[1..n -> StoredRows(shape)] : n \in 0..MaxRows}

ForeignKey(table, foreign_table) ==
    [constraint_name |-> <<"f", "k">>, column_name |-> N_id,
     foreign_table |-> foreign_table, foreign_column |-> N_id,
     delete_rule |-> "NO ACTION", update_rule |-> "CASCADE"]

TableNames == {N_a, N_b}

TableChoices(name, owners) ==
    UNION {{[name |-> name, columns |-> sh.columns, pk |-> sh.pk,
             indexes |-> sh.indexes, fks |-> fks, rows |-> rows, owner |-> o] :
                rows \in RowLists(sh),
                fks \in {<<>>} \cup {<<ForeignKey(name, u)>> : u \in TableNames},
                o \in owners} : sh \in Shapes}

HasColumn(t, name) == \E c \in t.columns : c.name = name

\* a foreign key is declared on a column the table has and references a
\* column of a table of the catalog
ForeignKeysResolve(tables) ==
    \A t \in tables : \A k \in 1..Len(t.fks) :
        /\ HasColumn(t, t.fks[k].column_name)
        /\ \E u \in tables : /\ u.name = t.fks[k].foreign_table
                              /\ HasColumn(u, t.fks[k].foreign_column)

TableCatalogs(owners) ==
    {c \in {ta \cup tb : ta \in {{}} \cup {{t} : t \in TableChoices(N_a, owners)},
                         tb \in {{}} \cup {{t} : t \in TableChoices(N_b, owners)}} :
        ForeignKeysResolve(c)}

EnumCatalogs ==
    {{},
     {[name |-> T_mood, labels |-> <<TextCell("name", N_open), TextCell("name", N_closed)>>]},
     {[name |-> T_mood, labels |-> <<>>]},
     {[name |-> T_mood, labels |-> <<TextCell("name", N_open)>>],
      [name |-> N_zz, labels |-> <<NullCell("name")>>]}}

\* a row of the sequence parameter query: expression, then the columns of
\* pg_sequence_parameters (start, minimum, maximum, increment)
SeqRow(start, min, max, inc) ==
    <<NullCell("text"), start, min, max, inc>>
SeqParamResults ==
    {<<>>,
     <<SeqRow(NumCell("int8", 5), NumCell("int8", 2), NumCell("int8", 100), NumCell("int8", 3))>>,
     <<SeqRow(NullCell("int8"), NullCell("int8"), NullCell("int8"), NullCell("int8"))>>}

SeqCatalogs ==
    {{}} \cup
    {{[name |-> N_s1, params |-> p]} : p \in SeqParamResults} \cup
    {{[name |-> N_s1, params |-> p], [name |-> N_s2, params |-> q]} :
        p \in SeqParamResults, q \in SeqParamResults}

Role(name, super, login, memberof, description, connlimit, password, sprivs, tprivs) ==
    [name |-> name, rolsuper |-> super, rolinherit |-> TRUE,
     rolcreaterole |-> super, rolcreatedb |-> super, rolcanlogin |-> login,
     rolreplication |-> FALSE, memberof |-> memberof,
     description |-> description, rolconnlimit |-> connlimit,
     rolpassword |-> password, schema_privs |-> sprivs, table_privs |-> tprivs]

AllRoles ==
    {Role(N_al, TRUE, TRUE, <<>>, None, -1,
          Some(<<"m", "d", "5", "a">>), <<>>,
          <<[schema |-> N_public, table |-> N_a, privs |-> <<"SELECT">>]>>),
     Role(N_bo, FALSE, TRUE, <<N_al>>, Some(<<"i", "t", QUOTE, "s">>), 5,
          Some(<<"S", "C", "R", "A", "M">>),
          <<[schema |-> N_public, privs |-> <<"USAGE">>]>>, <<>>),
     Role(N_pgm, FALSE, FALSE, <<>>, None, -1, None, <<>>, <<>>),
     Role(N_pga, FALSE, TRUE, <<>>, None, -1, None, <<>>, <<>>),
     Role(N_ze, FALSE, FALSE, <<>>, None, 0, None, <<>>, <<>>)}

BaseTable(o) ==
    [name |-> N_a, columns |-> Shape1.columns, pk |-> Shape1.pk,
     indexes |-> Shape1.indexes, fks |-> <<>>,
     rows |-> <<[a \in {1} |-> NumCell("int4", 7)]>>, owner |-> o]

BaseDb ==
    [enums |-> {[name |-> T_mood, labels |-> <<TextCell("name", N_open)>>]},
     sequences |-> {[name |-> N_s1, params |->
        <<SeqRow(NumCell("int8", 5), NumCell("int8", 2), NumCell("int8", 100), NumCell("int8", 3))>>]},
     tables |-> {BaseTable(N_al)},
     roles |-> {r \in AllRoles : r.name \in {N_al, N_pgm}},
     owner |-> N_al, user |-> N_al]

\* the databases in which the role catalog, the owners and the principal vary
RoleDbs ==
    {[BaseDb EXCEPT !.roles = rs, !.owner = o, !.user = u, !.tables = tc] :
        rs \in SUBSET AllRoles, o \in {N_al, N_bo}, u \in {N_al, N_bo},
        tc \in {{}} \cup {{BaseTable(w)} : w \in {N_al, N_bo, N_ze}}}

Databases ==
    {[BaseDb EXCEPT !.enums = e] : e \in EnumCatalogs} \cup
    {[BaseDb EXCEPT !.sequences = s] : s \in SeqCatalogs} \cup
    {[BaseDb EXCEPT !.tables = t] : t \in TableCatalogs({N_al})} \cup
    {d \in RoleDbs :
        {d.owner, d.user} \cup {t.owner : t \in d.tables} \subseteq {r.name : r \in d.roles}}

(***************************************************************************)
(* The dump: lines written through DumpTarget::write_line, in order.       *)
(* A line is [kind, name, args]: the statement or comment it is, the       *)
(* object it names, and the values formatted into it.                      *)
(***************************************************************************)
Line(kind, name, args) == [kind |-> kind, name |-> name, args |-> args]
Blank == Line("Blank", <<>>, <<>>)

Running == [status |-> "running", error |-> None]
Ok == [status |-> "ok", error |-> None]
Error(kind, cause, at, n) == [kind |-> kind, cause |-> cause, at |-> at, n |-> n]
Err(e) == [status |-> "err", error |-> Some(e)]

\* why a query can fail
FailCauses == {"permission", "other"}

\* the `?` on a failed client.query, the last of the queries qs sent in this
\* step: the function returns the error, and so does run
AbortWith(lines, qs, outcomes) ==
    /\ out' = out \o lines
    /\ queries' = queries \o qs
    /\ answers' = answers \o outcomes
    /\ result' = Err(Error("query", outcomes[Len(outcomes)], qs[Len(qs)], 0))
    /\ pc' = "failed"
    /\ UNCHANGED <<db, cur, idx>>

\* n queries answered, the last of them with the error `cause`
Failing(n, cause) ==
    [i \in 1..n |-> IF i = n THEN cause ELSE "ok"]

\* n queries answered with rows
Succeeding(n) ==
    [i \in 1..n |-> "ok"]

Abort(lines, qs, cause) ==
    AbortWith(lines, qs, Failing(Len(qs), cause))

\* File::create(output_file) truncates what an earlier run left in the file
FileAppend(old) ==
    old
FileCreate(old) ==
    <<>>

\* run: the baseline probe and the two header lines
RunProbe ==
    /\ pc = "probe"
    /\ queries' = Append(queries, "schema_probe")
    /\ \/ /\ out' = FileCreate(out) \o
                     <<Line("Header", <<>>, "Database Dump for"),
                       Line("Header", <<>>, "Host"), Blank>>
          /\ answers' = Append(answers, "ok")
          /\ pc' = "dump_tables"
          /\ UNCHANGED <<result, db, cur, idx>>
       \/ /\ result' = Err(Error("probe", "PermissionDenied", "schema_probe", 0))
          /\ answers' = Append(answers, "err")
          /\ pc' = "failed"
          /\ UNCHANGED <<out, db, cur, idx>>
    /\ UNCHANGED <<connVars, encVars, previous>>

\* dump_tables_to: the SET lines and the enum type query
Preamble ==
    <<Line("Comment", <<>>, "Tables, sequences, data types, and table data"),
      Line("Set", <<>>, "client_encoding"),
      Line("Set", <<>>, "standard_conforming_strings"),
      Line("Set", <<>>, "check_function_bodies"),
      Line("Set", <<>>, "client_min_messages"),
      Line("Set", <<>>, "search_path"),
      Blank>>

ListTypes ==
    /\ pc = "dump_tables"
    /\ \/ /\ out' = out \o Preamble
          /\ cur' = OrderByName(db.enums)
          /\ idx' = 1
          /\ pc' = "types"
          /\ queries' = Append(queries, "types")
          /\ answers' = Append(answers, "ok")
          /\ UNCHANGED <<result, db>>
       \/ \E cause \in FailCauses : Abort(Preamble, <<"types">>, cause)
    /\ UNCHANGED <<connVars, encVars, previous>>

\* the labels of one enum type, each as format!("'{}'", val)
RECURSIVE EnumValues(_)
EnumValues(labels) ==
    IF labels = <<>> THEN <<>>
    ELSE LET l == Head(labels)
         IN  (IF TryGetOk("String", l) \/ TryGetOk("&str", l)
              THEN <<QuoteNoEscape(l.s)>> ELSE <<>>)
             \o EnumValues(Tail(labels))

\* one iteration of `for type_row in types`
DumpType ==
    /\ pc = "types"
    /\ idx <= Len(cur)
    /\ LET type_name == cur[idx].name
           values == EnumValues(cur[idx].labels)
           head == <<Line("TypeComment", type_name, <<>>)>>
       IN  \/ /\ out' = out \o head \o
                    <<IF values # <<>>
                      THEN Line("CreateType", type_name, values)
                      ELSE Line("TypeWarning", type_name, <<>>),
                      Blank>>
              /\ idx' = idx + 1
              /\ queries' = Append(queries, "enum_values")
              /\ answers' = Append(answers, "ok")
              /\ UNCHANGED <<pc, result, db, cur>>
           \/ \E cause \in FailCauses : Abort(head, <<"enum_values">>, cause)
    /\ UNCHANGED <<connVars, encVars, previous>>

\* the sequence list query, after the last enum type
ListSequences ==
    /\ pc = "types"
    /\ idx > Len(cur)
    /\ \/ /\ cur' = OrderByName(db.sequences)
          /\ idx' = 1
          /\ pc' = "sequences"
          /\ queries' = Append(queries, "sequences")
          /\ answers' = Append(answers, "ok")
          /\ UNCHANGED <<out, result, db>>
       \/ \E cause \in FailCauses : Abort(<<>>, <<"sequences">>, cause)
    /\ UNCHANGED <<connVars, encVars, previous>>

\* seq_info.try_get(i).unwrap_or(d), i counted from 0
UnwrapOr(row, i, d) ==
    IF TryGetOk("i64", row[i + 1]) THEN row[i + 1].n ELSE d

DefaultStart == 1
DefaultMin == 1
DefaultMax == 2147483647
DefaultIncrement == 1

CreateSequence(seq_name, seq_info) ==
    Line("CreateSequence", seq_name,
         [start |-> UnwrapOr(seq_info, 1, DefaultStart),
          increment |-> UnwrapOr(seq_info, 4, DefaultIncrement),
          min |-> UnwrapOr(seq_info, 2, DefaultMin),
          max |-> UnwrapOr(seq_info, 3, DefaultMax)])

\* one iteration of `for seq_row in sequences`; query_one fails unless the
\* parameter query returns exactly one row
DumpSequence ==
    /\ pc = "sequences"
    /\ idx <= Len(cur)
    /\ LET seq_name == cur[idx].name
           rows == cur[idx].params
           head == <<Line("SequenceComment", seq_name, <<>>)>>
       IN  \/ /\ Len(rows) = 1
              /\ out' = out \o head \o <<CreateSequence(seq_name, rows[1]), Blank>>
              /\ idx' = idx + 1
              /\ queries' = Append(queries, "seq_info")
              /\ answers' = Append(answers, "ok")
              /\ UNCHANGED <<pc, result, db, cur>>
           \/ /\ Len(rows) # 1
              /\ Abort(head, <<"seq_info">>, "RowCount")
           \/ \E cause \in FailCauses : Abort(head, <<"seq_info">>, cause)
    /\ UNCHANGED <<connVars, encVars, previous>>

\* the table list query, after the last sequence
ListTables ==
    /\ pc = "sequences"
    /\ idx > Len(cur)
    /\ \/ /\ cur' = OrderByName(db.tables)
          /\ idx' = 1
          /\ pc' = "tables"
          /\ queries' = Append(queries, "tables")
          /\ answers' = Append(answers, "ok")
          /\ UNCHANGED <<out, result, db>>
       \/ \E cause \in FailCauses : Abort(<<>>, <<"tables">>, cause)
    /\ UNCHANGED <<connVars, encVars, previous>>

\* the definition of one column in CREATE TABLE
ColumnDef(column) ==
    [name |-> column.name,
     type |-> IF Contains(column.data_type, M_character_varying) /\ column.max_length # None
              THEN <<"varchar", column.max_length[1]>>
              ELSE IF Contains(column.data_type, M_character) /\ column.max_length # None
              THEN <<"char", column.max_length[1]>>
              ELSE <<"type", column.data_type>>,
     not_null |-> column.not_null,
     default |-> column.column_default]

\* the column query of one table
ColumnsQuery(table) ==
    OrderByAttnum(table.columns)

\* SELECT * FROM table: every stored row, its cells in attribute order
SelectStar(table) ==
    LET nums == {c.attnum : c \in table.columns}
        nth(i) == CHOOSE a \in nums : Cardinality({b \in nums : b < a}) = i - 1
    IN  [r \in 1..Len(table.rows) |->
            [i \in 1..Cardinality(nums) |-> table.rows[r][nth(i)]]]

\* the values of one row: the encoding of cell i under the type of column i
Values(columns_query, row) ==
    [i \in 1..Len(columns_query) |-> Encode(row[i], columns_query[i].data_type)]

ColumnNames(columns_query) ==
    [i \in 1..Len(columns_query) |-> columns_query[i].name]

Insert(table_name, columns_query, row) ==
    Line("Insert", table_name,
         [columns |-> ColumnNames(columns_query),
          values |-> Values(columns_query, row)])

AlterTableFk(table_name, fk) ==
    Line("AlterTableFk", table_name, fk)

\* the lines of one table, split at the queries that can fail
TableOpenLines(table) ==
    <<Line("TableComment", table.name, <<>>),
      Line("CreateTableOpen", table.name, <<>>)>>

TableDefLines(table) ==
    LET columns_query == ColumnsQuery(table)
        column_defs == [i \in 1..Len(columns_query) |-> ColumnDef(columns_query[i])]
                       \o (IF table.pk # <<>>
                           THEN <<[name |-> <<>>, type |-> <<"PRIMARY KEY", table.pk>>,
                                   not_null |-> FALSE, default |-> None]>>
                           ELSE <<>>)
    IN  <<Line("ColumnDefs", table.name, column_defs),
          Line("CreateTableClose", table.name, <<>>),
          Blank>>

TableIndexLines(table) ==
    [i \in 1..Len(table.indexes) |-> Line("Index", table.name, table.indexes[i])]

TableFkLines(table) ==
    [i \in 1..Len(table.fks) |-> AlterTableFk(table.name, table.fks[i])]
    \o <<Blank, Line("DataComment", table.name, <<>>)>>

TableDataLines(table) ==
    LET columns_query == ColumnsQuery(table)
        rows == SelectStar(table)
    IN  [r \in 1..Len(rows) |-> Insert(table.name, columns_query, rows[r])]
        \o <<Blank>>

TableQueries == <<"columns", "pk", "indexes", "fks", "rows">>

\* what has been written when query number q of the iteration fails
TableLinesBefore(table, q) ==
    TableOpenLines(table)
    \o (IF q > 2 THEN TableDefLines(table) ELSE <<>>)
    \o (IF q > 3 THEN TableIndexLines(table) ELSE <<>>)
    \o (IF q > 4 THEN TableFkLines(table) ELSE <<>>)
    \o (IF q > 5 THEN TableDataLines(table) ELSE <<>>)

\* one iteration of `for table_row in tables`
DumpTable ==
    /\ pc = "tables"
    /\ idx <= Len(cur)
    /\ \/ /\ out' = out \o TableLinesBefore(cur[idx], 6)
          /\ idx' = idx + 1
          /\ queries' = queries \o TableQueries
          /\ answers' = answers \o Succeeding(Len(TableQueries))
          /\ UNCHANGED <<pc, result, db, cur>>
       \/ \E q \in 1..Len(TableQueries), cause \in FailCauses :
              Abort(TableLinesBefore(cur[idx], q), SubSeq(TableQueries, 1, q), cause)
    /\ UNCHANGED <<connVars, encVars, previous>>

(***************************************************************************)
(* dump_users_and_roles_to                                                 *)
(***************************************************************************)
RolesHeader ==
    <<Line("Comment", <<>>, "Users, roles and permissions"), Blank>>

NoRoleAccessOneLine ==
    <<Line("Warning", <<>>, "No access to role information. Skipping user and role dump.")>>
NoRoleAccess ==
    <<Line("Warning", <<>>, "No access to role information. Skipping user and role dump."),
      Line("Comment", <<>>, "You may need superuser privileges to dump roles.")>>

\* the roles a CREATE ROLE is written for, among the rows of the role query
IsDumpedAll(rolname) ==
    TRUE
IsDumped(rolname) ==
    ~StartsWith(rolname, M_pg)

\* dump_tables_to has returned; the role probe and the role query
ListRoles ==
    /\ pc = "tables"
    /\ idx > Len(cur)
    /\ \/ /\ out' = out \o RolesHeader \o NoRoleAccess
          /\ queries' = Append(queries, "role_probe")
          /\ answers' = Append(answers, "err")
          /\ result' = Ok
          /\ pc' = "done_no_role_access"
          /\ UNCHANGED <<db, cur, idx>>
       \/ /\ out' = out \o RolesHeader
          /\ queries' = queries \o <<"role_probe", "roles">>
          /\ answers' = answers \o Succeeding(2)
          /\ cur' = OrderByName(db.roles)
          /\ idx' = 1
          /\ pc' = "roles"
          /\ UNCHANGED <<result, db>>
       \/ \E cause \in FailCauses :
              Abort(RolesHeader, <<"role_probe", "roles">>, cause)
    /\ UNCHANGED <<connVars, encVars, previous>>

CreateRole(role) ==
    Line("CreateRole", role.name,
         [flags |-> <<IF role.rolsuper THEN "SUPERUSER" ELSE "NOSUPERUSER",
                      IF role.rolinherit THEN "INHERIT" ELSE "NOINHERIT",
                      IF role.rolcreaterole THEN "CREATEROLE" ELSE "NOCREATEROLE",
                      IF role.rolcreatedb THEN "CREATEDB" ELSE "NOCREATEDB",
                      IF role.rolcanlogin THEN "LOGIN" ELSE "NOLOGIN",
                      IF role.rolreplication THEN "REPLICATION" ELSE "NOREPLICATION">>,
          connection_limit |-> IF role.rolconnlimit >= 0
                               THEN Some(role.rolconnlimit) ELSE None])

\* the lines of one role up to the schema privilege query; pwd_ok says
\* whether the pg_authid query succeeded
RoleHeadLines(role, pwd_ok) ==
    <<Line("RoleComment", role.name, <<>>), CreateRole(role)>>
    \o (IF pwd_ok /\ role.rolpassword # None /\ StartsWith(role.rolpassword[1], M_md5)
        THEN <<Line("AlterRolePassword", role.name, role.rolpassword[1])>> ELSE <<>>)
    \o (IF role.memberof # <<>>
        THEN <<Line("GrantRole", role.name, role.memberof)>> ELSE <<>>)
    \o (IF role.description # None
        THEN <<Line("CommentOnRole", role.name, Quoted(role.description[1]))>> ELSE <<>>)
    \o <<Blank>>

RoleSchemaLines(role) ==
    [i \in 1..Len(role.schema_privs) |-> Line("GrantSchema", role.name, role.schema_privs[i])]

RoleTableLines(role) ==
    [i \in 1..Len(role.table_privs) |-> Line("GrantTable", role.name, role.table_privs[i])]
    \o <<Blank>>

RoleQueries == <<"rolpassword", "schema_privs", "table_privs">>

\* one iteration of `for role in roles`
DumpRole ==
    /\ pc = "roles"
    /\ idx <= Len(cur)
    /\ LET role == cur[idx]
       IN  IF ~IsDumped(role.name)
           THEN /\ idx' = idx + 1
                /\ UNCHANGED <<pc, out, result, db, cur, queries, answers>>
           ELSE \E pwd_ok \in BOOLEAN :
                LET pwd == IF pwd_ok THEN "ok" ELSE "err"
                IN  \/ /\ out' = out \o RoleHeadLines(role, pwd_ok)
                                     \o RoleSchemaLines(role) \o RoleTableLines(role)
                       /\ idx' = idx + 1
                       /\ queries' = queries \o RoleQueries
                       /\ answers' = answers \o <<pwd, "ok", "ok">>
                       /\ UNCHANGED <<pc, result, db, cur>>
                    \/ \E cause \in FailCauses :
                           AbortWith(RoleHeadLines(role, pwd_ok),
                                     SubSeq(RoleQueries, 1, 2), <<pwd, cause>>)
                    \/ \E cause \in FailCauses :
                           AbortWith(RoleHeadLines(role, pwd_ok) \o RoleSchemaLines(role),
                                     RoleQueries, <<pwd, "ok", cause>>)
    /\ UNCHANGED <<connVars, encVars, previous>>

\* dump_users_and_roles_to returns Ok after the last role, and so does run
RunReturn ==
    /\ pc = "roles"
    /\ idx > Len(cur)
    /\ result' = Ok
    /\ pc' = "done"
    /\ UNCHANGED <<db, out, cur, idx, queries, answers>>
    /\ UNCHANGED <<connVars, encVars, previous>>

(***************************************************************************)
(* connect_with_retry                                                      *)
(***************************************************************************)
ConnectErrors == {"refused", "auth"}

Pow2(n) ==
    IF n = 0 THEN 1 ELSE IF n = 1 THEN 2 ELSE IF n = 2 THEN 4
    ELSE IF n = 3 THEN 8 ELSE 16

Min(a, b) == IF a < b THEN a ELSE b

\* Duration::from_secs(2u64.pow(retries.min(4)))
BackoffNoCap(n) ==
    2 ^ n
Backoff(n) ==
    Pow2(Min(n, 4))

\* while retries < max_retries
LoopGuard(r, m) ==
    r < m

\* last_error = Some(e)
KeepFirst(old, e) ==
    IF old = None THEN Some(e) ELSE old
SetLastError(old, e) ==
    Some(e)

\* connect(opt) returns Ok(client): return Ok(client)
ConnectOk ==
    /\ pc = "connect"
    /\ LoopGuard(retries, max_retries)
    /\ attempts' = attempts + 1
    /\ result' = Ok
    /\ pc' = "connected"
    /\ UNCHANGED <<max_retries, retries, last_error, errlog, delay, sleeps>>
    /\ UNCHANGED <<dumpVars, encVars>>

\* connect(opt) returns Err(e)
ConnectErr ==
    /\ pc = "connect"
    /\ LoopGuard(retries, max_retries)
    /\ \E cause \in ConnectErrors :
          LET e == Error("connect", cause, "connect", attempts + 1)
          IN  /\ attempts' = attempts + 1
              /\ errlog' = Append(errlog, [attempt |-> retries + 1, error |-> e])
              /\ last_error' = SetLastError(last_error, e)
              /\ retries' = retries + 1
              /\ IF retries + 1 < max_retries
                 THEN /\ delay' = Backoff(retries + 1)
                      /\ pc' = "sleep"
                 ELSE /\ delay' = delay
                      /\ pc' = "connect"
    /\ UNCHANGED <<max_retries, result, sleeps>>
    /\ UNCHANGED <<dumpVars, encVars>>

\* tokio::time::sleep(delay).await completes
Sleep ==
    /\ pc = "sleep"
    /\ sleeps' = Append(sleeps, delay)
    /\ pc' = "connect"
    /\ UNCHANGED <<max_retries, retries, last_error, attempts, errlog, delay, result>>
    /\ UNCHANGED <<dumpVars, encVars>>

\* the loop is left without a client: all retries failed
ConnectGiveUp ==
    /\ pc = "connect"
    /\ ~LoopGuard(retries, max_retries)
    /\ result' = Err(IF last_error # None THEN last_error[1]
                     ELSE Error("connect", "ConnectionRefused", "after retries", 0))
    /\ pc' = "failed"
    /\ UNCHANGED connVars
    /\ UNCHANGED <<dumpVars, encVars>>

(***************************************************************************)
(* The value encoder applied to one cell.                                  *)
(***************************************************************************)
EncodeCell ==
    /\ pc = "encode"
    /\ value' = Some(Encode(cell, col_type))
    /\ pc' = "encoded"
    /\ UNCHANGED <<cell, col_type, result>>
    /\ UNCHANGED <<dumpVars, connVars>>

(***************************************************************************)
(* Specifications.                                                         *)
(***************************************************************************)
ConnIdle ==
    /\ max_retries = 3
    /\ retries = 0
    /\ last_error = None
    /\ attempts = 0
    /\ errlog = <<>>
    /\ delay = 0
    /\ sleeps = <<>>

EncIdle ==
    /\ cell = NullCell("text")
    /\ col_type = T_text
    /\ value = NoValue

DumpIdle ==
    /\ db = BaseDb
    /\ out = <<>>
    /\ cur = <<>>
    /\ idx = 1
    /\ queries = <<>>
    /\ answers = <<>>
    /\ previous = None

\* run holds a session: the state after connect_with_retry returned Ok
Init ==
    /\ pc = "probe"
    /\ db \in Databases
    /\ out = <<>>
    /\ result = Running
    /\ cur = <<>>
    /\ idx = 1
    /\ queries = <<>>
    /\ answers = <<>>
    /\ previous = None
    /\ ConnIdle
    /\ EncIdle

Next ==
    \/ RunProbe
    \/ ListTypes
    \/ DumpType
    \/ ListSequences
    \/ DumpSequence
    \/ ListTables
    \/ DumpTable
    \/ ListRoles
    \/ DumpRole
    \/ RunReturn

Spec == Init /\ [][Next]_vars

\* main is run a second time against the same database, with the same
\* output file: what the first run left is kept for comparison
Terminated == pc \in {"done", "done_no_role_access", "failed"}

Restart ==
    /\ Terminated
    /\ previous = None
    /\ previous' = Some([out |-> out, result |-> result, answers |-> answers])
    /\ pc' = "probe"
    /\ result' = Running
    /\ cur' = <<>>
    /\ idx' = 1
    /\ queries' = <<>>
    /\ answers' = <<>>
    /\ UNCHANGED <<db, out>>
    /\ UNCHANGED <<connVars, encVars>>

IsPrefix(s, t) ==
    /\ Len(s) <= Len(t)
    /\ SubSeq(t, 1, Len(s)) = s

\* the second run reads the snapshot the first run read: every query gets
\* the answer it got then
SameSnapshot ==
    previous # None => IsPrefix(answers, previous[1].answers)

NextTwice ==
    \/ Restart
    \/ RunProbe /\ SameSnapshot'
    \/ ListTypes /\ SameSnapshot'
    \/ DumpType /\ SameSnapshot'
    \/ ListSequences /\ SameSnapshot'
    \/ DumpSequence /\ SameSnapshot'
    \/ ListTables /\ SameSnapshot'
    \/ DumpTable /\ SameSnapshot'
    \/ ListRoles /\ SameSnapshot'
    \/ DumpRole /\ SameSnapshot'
    \/ RunReturn /\ SameSnapshot'

\* the snapshots the two runs are compared on: the databases in which at
\* most one table holds rows
Snapshots ==
    {d \in Databases : Cardinality({t \in d.tables : t.rows # <<>>}) <= 1}

InitTwice ==
    /\ Init
    /\ db \in Snapshots

SpecTwice == InitTwice /\ [][NextTwice]_vars

\* connect_with_retry called with any max_retries up to the bound
InitConnect ==
    /\ pc = "connect"
    /\ max_retries \in 0..MaxRetriesBound
    /\ retries = 0
    /\ last_error = None
    /\ attempts = 0
    /\ errlog = <<>>
    /\ delay = 0
    /\ sleeps = <<>>
    /\ result = Running
    /\ DumpIdle
    /\ EncIdle

NextConnect ==
    \/ ConnectOk
    \/ ConnectErr
    \/ Sleep
    \/ ConnectGiveUp

SpecConnect == InitConnect /\ [][NextConnect]_vars

\* the value encoder applied to any cell of any declared type
InitEncode ==
    /\ pc = "encode"
    /\ col_type \in DeclaredTypes
    /\ cell \in CellsOf(col_type)
    /\ value = NoValue
    /\ result = Running
    /\ DumpIdle
    /\ ConnIdle

NextEncode ==
    \/ EncodeCell

SpecEncode == InitEncode /\ [][NextEncode]_vars

(***************************************************************************)
(* Properties.                                                             *)
(***************************************************************************)
Lines(kind) == {i \in 1..Len(out) : out[i].kind = kind}

TableOf(name) == CHOOSE t \in db.tables : t.name = name

IsTable(name) == \E t \in db.tables : t.name = name

CreatedBefore(kind, name, i) ==
    \E j \in 1..(i - 1) : out[j].kind = kind /\ out[j].name = name

\* C1: every ALTER TABLE ... ADD CONSTRAINT ... FOREIGN KEY line that
\* references a table of the dump comes after the CREATE TABLE of the
\* referenced table.
C1_ReferencedTableCreatedBeforeForeignKey ==
    \A i \in Lines("AlterTableFk") :
        IsTable(out[i].args.foreign_table)
            => CreatedBefore("CreateTableOpen", out[i].args.foreign_table, i)

\* C2: schema before data: when an INSERT line is written, the CREATE
\* statement of every enum type with labels, of every sequence, of the
\* table itself and of every table its foreign keys reference has been
\* written before it.
C2_SchemaBeforeData ==
    \A i \in Lines("Insert") :
        /\ \A e \in db.enums :
              EnumValues(e.labels) # <<>> => CreatedBefore("CreateType", e.name, i)
        /\ \A s \in db.sequences : CreatedBefore("CreateSequence", s.name, i)
        /\ CreatedBefore("CreateTableClose", out[i].name, i)
        /\ \A k \in 1..Len(TableOf(out[i].name).fks) :
              LET u == TableOf(out[i].name).fks[k].foreign_table
              IN  IsTable(u) => CreatedBefore("CreateTableClose", u, i)

HasMarker(t) ==
    \/ Contains(t, M_char)
    \/ Contains(t, T_text)
    \/ Contains(t, M_time)
    \/ Contains(t, M_date)

\* C3: a present cell of a column whose declared type name contains a
\* character, text, time or date marker is encoded as its value in single
\* quotes with every embedded single quote doubled.
C3_MarkedTypesAreQuoted ==
    (pc = "encoded" /\ ~cell.null /\ HasMarker(col_type))
        => value = Some(Quoted(cell.s))

\* C4: connect_with_retry makes at most max_retries attempts, reports every
\* failed attempt, returns the session at the first successful attempt, and
\* returns an error only after max_retries failed attempts: the error of
\* the last of them.
C4_BoundedRetryLastError ==
    /\ attempts <= max_retries
    /\ Len(errlog) = retries
    /\ \A k \in 1..Len(errlog) : errlog[k].attempt = k /\ errlog[k].error.n = k
    /\ pc = "connected" => (attempts = retries + 1 /\ result = Ok)
    /\ result.status = "err" => pc = "failed"
    /\ pc = "failed" =>
          /\ attempts = max_retries
          /\ retries = max_retries
          /\ result.status = "err"
          /\ max_retries > 0 => result.error = Some(errlog[Len(errlog)].error)

C4_Witness ==
    /\ pc = "failed"
    /\ max_retries = 3
    /\ errlog[1].error.cause # errlog[3].error.cause
    /\ result.error[1].cause = errlog[3].error.cause

\* the lines the role serializer wrote after its header comment
RoleSection ==
    LET k == CHOOSE i \in 1..Len(out) : out[i] = RolesHeader[1]
    IN  SubSeq(out, k + 1, Len(out))

RoleStatementKinds ==
    {"RoleComment", "CreateRole", "AlterRolePassword", "GrantRole",
     "CommentOnRole", "GrantSchema", "GrantTable"}

RoleListQueries == {"roles", "rolpassword", "schema_privs", "table_privs"}

NoRoleStatements ==
    /\ \A i \in 1..Len(out) : out[i].kind \notin RoleStatementKinds
    /\ \A i \in 1..Len(queries) : queries[i] \notin RoleListQueries
    /\ queries[Len(queries)] = "role_probe"
    /\ result = Ok

CommentLines(lines) ==
    {i \in 1..Len(lines) : lines[i].kind \in {"Warning", "Comment"}}

\* C5 as stated: when the role probe fails, exactly one warning comment
\* line is written, no further role query is sent, no role statement is
\* written and the run succeeds.
C5_OneWarningLine ==
    pc = "done_no_role_access" =>
        /\ Cardinality(CommentLines(RoleSection)) = 1
        /\ NoRoleStatements

\* C5 as amended: when the role probe fails, the warning is two comment
\* lines (the "Warning:" line and a hint about superuser privileges) and
\* nothing else follows the header; no further role query is sent, no role
\* statement is written and the run succeeds.
C5_TwoWarningLines ==
    pc = "done_no_role_access" =>
        /\ Len(RoleSection) = 3
        /\ RoleSection[1].kind = "Blank"
        /\ RoleSection[2].kind = "Warning"
        /\ RoleSection[3].kind = "Comment"
        /\ NoRoleStatements

C5_Witness ==
    /\ pc = "done_no_role_access"
    /\ db.roles # {}
    /\ Lines("Insert") # {}

\* C6: a sequence whose parameter query yields no row does not abort the
\* run: once its comment line is written, its CREATE SEQUENCE line with the
\* defaults 1, 1, 1, 2147483647 is written too (unless the query itself
\* failed).
C6_MissingParametersUseDefaults ==
    \A s \in db.sequences :
        (/\ s.params = <<>>
         /\ \E i \in Lines("SequenceComment") : out[i].name = s.name
         /\ ~(result.status = "err" /\ result.error[1].cause \in FailCauses))
        => \E i \in Lines("CreateSequence") :
              /\ out[i].name = s.name
              /\ out[i].args = [start |-> 1, increment |-> 1, min |-> 1,
                                max |-> 2147483647]

\* C7: after the baseline probe succeeded, a query that fails for lack of
\* privilege never makes the run fail.
C7_PermissionDeniedNeverFatal ==
    ~(/\ result.status = "err"
      /\ result.error[1].kind = "query"
      /\ result.error[1].cause = "permission")

EmittedRoles ==
    LET lines == SelectSeq(out, LAMBDA l : l.kind = "CreateRole")
    IN  [i \in 1..Len(lines) |-> lines[i].name]

Range(f) == {f[i] : i \in DOMAIN f}

RECURSIVE Dedup(_)
Dedup(s) ==
    IF s = <<>> THEN <<>>
    ELSE LET front == Dedup(SubSeq(s, 1, Len(s) - 1))
             last == s[Len(s)]
         IN  IF last \in Range(front) THEN front ELSE Append(front, last)

\* the owners of the objects outside the system namespaces
ObjectOwners ==
    {t.owner : t \in db.tables}

DumpableRoles ==
    {r.name : r \in {x \in db.roles : ~StartsWith(x.name, M_pg)}}

C9_InsertFollowsColumnOrder ==
    \A i \in Lines("Insert") :
        LET t == TableOf(out[i].name)
            n == Cardinality(t.columns)
            colAt(k) == CHOOSE c \in t.columns :
                            Cardinality({d \in t.columns : d.attnum < c.attnum}) = k - 1
            r == Cardinality({j \in Lines("Insert") : j <= i /\ out[j].name = t.name})
        IN  /\ Len(out[i].args.columns) = n
            /\ Len(out[i].args.values) = n
            /\ \A k \in 1..n :
                  /\ out[i].args.columns[k] = colAt(k).name
                  /\ out[i].args.values[k]
                        = Encode(t.rows[r][colAt(k).attnum], colAt(k).data_type)

C9_Witness ==
    \E i \in Lines("Insert") :
        /\ out[i].args.columns = <<N_note, N_id>>
        /\ out[i].args.values = <<Quoted(<<"O", QUOTE, "B">>), <<"7">>>>

\* C10: an absent cell is encoded as the text NULL, whatever the declared
\* type of its column.
C10_NullIsNULL ==
    (pc = "encoded" /\ cell.null) => value = Some(<<"N", "U", "L", "L">>)

C10_Witness ==
    /\ pc = "encoded"
    /\ cell.null
    /\ col_type = T_integer
    /\ value = Some(<<"N", "U", "L", "L">>)

\* C11: no role whose name begins with pg_ is the subject of a CREATE ROLE
\* line, however many such roles the catalog lists and wherever they stand
\* in the listing.
C11_NoReservedRoleCreated ==
    \A i \in Lines("CreateRole") :
        ~(/\ Len(out[i].name) >= 3
          /\ out[i].name[1] = "p"
          /\ out[i].name[2] = "g"
          /\ out[i].name[3] = "_")

C11_Witness ==
    /\ pc = "done"
    /\ {N_pga, N_pgm} \subseteq {r.name : r \in db.roles}
    /\ EmittedRoles = <<N_al, N_bo, N_ze>>

\* C13: the k-th wait of connect_with_retry follows failed attempt k and
\* lasts min(2^k, 16) seconds; a wait follows every failed attempt but the
\* last allowed one, and none follows a successful attempt.
C13_BackoffDelays ==
    /\ \A k \in 1..Len(sleeps) : sleeps[k] = (IF 2 ^ k < 16 THEN 2 ^ k ELSE 16)
    /\ pc = "sleep" =>
          /\ Len(sleeps) = retries - 1
          /\ retries < max_retries
          /\ delay = (IF 2 ^ retries < 16 THEN 2 ^ retries ELSE 16)
    /\ pc = "connect" =>
          Len(sleeps) = (IF retries < max_retries THEN retries
                         ELSE IF retries = 0 THEN 0 ELSE retries - 1)
    /\ pc = "connected" => Len(sleeps) = retries
    /\ pc = "failed" =>
          Len(sleeps) = (IF max_retries = 0 THEN 0 ELSE max_retries - 1)

C13_Witness ==
    /\ pc = "failed"
    /\ sleeps = <<2, 4, 8, 16, 16>>

\* C14: no INSERT line is written for a table that has no column, however
\* many rows it holds.
C14_NoInsertWithoutColumns ==
    \A i \in Lines("Insert") : TableOf(out[i].name).columns # {}

====
